---- MODULE Spec2Model ----
(***************************************************************************)
(* Bech32X reference implementation (ref/python/bech32x.py): the checksum  *)
(* codec, the strict decoder, the byte-level encode/decode pair and the    *)
(* error-correcting decoder base32x_correct with its GF(1024) solver.      *)
(*                                                                         *)
(* Strings are sequences of ASCII codes.  The 135-bit checksum register of *)
(* bech32x_polymod is kept as its 27 base-32 digits, most significant      *)
(* first, which is exact: every generator constant fits in 135 bits.       *)
(***************************************************************************)
EXTENDS Integers, Sequences, FiniteSets, TLC

(* CHARSET = "qpzry9x8gf2tvdw0s3jn54khce6mua7l" as ASCII codes *)
CHARSET == <<
    113, 112, 122, 114, 121, 57, 120, 56, 103, 102, 50, 116, 118, 100, 119, 48,
    115, 51, 106, 110, 53, 52, 107, 104, 99, 101, 54, 109, 117, 97, 55, 108 >>

(* the five generator constants of bech32x_polymod, each as 27 base-32     *)
(* digits, most significant first                                          *)
generator == <<
    << 18, 5, 13, 15, 22, 18, 31, 11, 23, 31, 30, 4, 21, 18, 28, 22, 11, 27, 20, 0, 26, 26, 10, 5, 15, 5, 28 >>,
    << 1, 10, 26, 30, 9, 1, 27, 22, 11, 27, 25, 8, 15, 1, 29, 9, 22, 19, 13, 0, 17, 17, 20, 10, 30, 10, 29 >>,
    << 2, 20, 17, 25, 18, 2, 19, 9, 22, 19, 23, 16, 30, 2, 31, 18, 9, 3, 26, 0, 7, 7, 13, 20, 25, 20, 31 >>,
    << 4, 13, 7, 23, 1, 4, 3, 18, 9, 3, 11, 5, 25, 4, 27, 1, 18, 6, 17, 0, 14, 14, 26, 13, 23, 13, 27 >>,
    << 8, 26, 14, 11, 2, 8, 6, 1, 18, 6, 22, 10, 23, 8, 19, 2, 1, 12, 7, 0, 28, 28, 17, 26, 11, 26, 19 >> >>

(* EXP[k] of the source is EXP[k + 1] here (sequences are 1-based) *)
EXP == <<
    1, 69, 229, 290, 58, 183, 166, 89, 838, 737, 199, 802, 203, 59, 242, 67,
    379, 892, 598, 97, 891, 909, 730, 53, 865, 432, 839, 676, 34, 512, 241, 140,
    84, 26, 573, 413, 657, 835, 944, 950, 552, 118, 538, 716, 273, 709, 857, 397,
    555, 185, 821, 426, 378, 825, 691, 323, 833, 826, 636, 108, 39, 849, 896, 390,
    233, 571, 3, 207, 303, 870, 107, 508, 490, 206, 362, 899, 329, 454, 349, 104,
    307, 197, 936, 257, 639, 163, 264, 55, 1003, 122, 259, 757, 361, 844, 102, 672,
    310, 404, 217, 11, 706, 642, 822, 357, 85, 95, 728, 191, 683, 1012, 790, 1007,
    366, 663, 733, 494, 474, 766, 939, 462, 848, 965, 355, 459, 513, 180, 105, 374,
    32, 650, 315, 712, 5, 337, 881, 266, 189, 545, 574, 338, 958, 37, 987, 586,
    962, 184, 880, 335, 88, 771, 516, 485, 792, 124, 157, 171, 773, 922, 955, 372,
    170, 832, 895, 665, 334, 29, 998, 806, 479, 943, 218, 196, 1005, 484, 861, 153,
    447, 145, 946, 828, 994, 562, 587, 903, 93, 594, 373, 239, 933, 605, 675, 505,
    187, 959, 96, 830, 872, 1016, 15, 982, 278, 798, 482, 707, 711, 979, 71, 111,
    232, 638, 230, 493, 277, 977, 205, 421, 684, 559, 429, 161, 386, 509, 431, 43,
    72, 953, 510, 352, 260, 814, 978, 2, 138, 458, 580, 81, 331, 332, 151, 556,
    354, 398, 740, 406, 83, 449, 134, 723, 637, 41, 194, 627, 954, 305, 79, 610,
    837, 558, 488, 68, 160, 455, 280, 141, 17, 255, 799, 423, 550, 997, 1001, 240,
    201, 177, 312, 519, 298, 567, 794, 246, 343, 751, 852, 721, 759, 483, 646, 546,
    753, 125, 216, 78, 551, 928, 780, 466, 243, 6, 414, 606, 620, 214, 989, 980,
    412, 724, 934, 658, 908, 671, 208, 579, 394, 1008, 514, 123, 326, 528, 75, 886,
    209, 518, 367, 722, 568, 204, 480, 585, 781, 407, 22, 292, 420, 745, 714, 143,
    155, 309, 347, 502, 877, 681, 894, 732, 427, 319, 988, 913, 377, 1014, 924, 549,
    810, 710, 918, 162, 333, 210, 713, 64, 436, 595, 304, 10, 647, 615, 532, 351,
    226, 249, 641, 1017, 74, 819, 52, 804, 341, 613, 670, 149, 678, 168, 970, 693,
    221, 287, 342, 682, 945, 1011, 717, 340, 544, 635, 439, 668, 31, 876, 748, 923,
    1022, 401, 392, 890, 968, 575, 279, 859, 263, 993, 765, 868, 225, 54, 942, 159,
    33, 719, 478, 1002, 63, 486, 983, 339, 1019, 192, 761, 624, 885, 30, 809, 521,
    697, 964, 294, 302, 803, 142, 222, 464, 121, 460, 986, 527, 807, 410, 842, 504,
    254, 858, 322, 772, 991, 862, 86, 144, 1015, 985, 704, 520, 764, 801, 4, 276,
    916, 40, 135, 662, 664, 267, 248, 708, 796, 360, 777, 131, 898, 268, 291, 127,
    82, 388, 99, 1009, 583, 158, 100, 554, 252, 976, 136, 320, 910, 533, 282, 7,
    475, 699, 846, 236, 874, 882, 453, 402, 327, 597, 174, 596, 235, 689, 457, 651,
    382, 557, 295, 363, 966, 428, 228, 359, 223, 405, 156, 238, 992, 696, 897, 451,
    12, 793, 57, 120, 393, 831, 813, 797, 301, 1004, 417, 952, 443, 389, 38, 788,
    869, 164, 211, 652, 165, 150, 617, 391, 172, 734, 289, 245, 408, 960, 50, 698,
    779, 9, 584, 840, 370, 308, 286, 275, 591, 659, 969, 634, 498, 633, 317, 854,
    603, 829, 935, 727, 873, 957, 234, 756, 300, 937, 324, 666, 385, 306, 128, 845,
    35, 581, 20, 430, 110, 173, 667, 452, 471, 418, 887, 148, 739, 77, 744, 655,
    106, 441, 271, 492, 336, 820, 495, 415, 539, 649, 500, 999, 867, 314, 653, 224,
    115, 843, 445, 27, 632, 376, 947, 889, 775, 784, 625, 816, 251, 523, 563, 526,
    866, 383, 616, 450, 73, 1020, 283, 66, 318, 921, 884, 91, 972, 811, 643, 883,
    384, 375, 101, 623, 25, 754, 178, 503, 808, 588, 604, 742, 284, 409, 901, 215,
    920, 817, 190, 750, 785, 564, 981, 473, 561, 644, 680, 827, 569, 137, 261, 875,
    823, 288, 176, 381, 738, 8, 525, 941, 80, 270, 425, 437, 534, 469, 296, 701,
    720, 690, 262, 932, 536, 582, 219, 129, 776, 198, 871, 46, 281, 200, 244, 477,
    805, 272, 640, 956, 175, 529, 14, 915, 499, 572, 472, 628, 609, 906, 769, 654,
    47, 348, 45, 470, 487, 914, 438, 729, 250, 590, 726, 812, 856, 456, 718, 411,
    783, 285, 476, 864, 501, 930, 902, 24, 695, 87, 213, 786, 763, 762, 703, 602,
    888, 834, 1013, 851, 778, 76, 685, 618, 328, 387, 440, 330, 265, 114, 782, 344,
    313, 578, 463, 789, 800, 65, 497, 694, 18, 48, 560, 705, 589, 537, 515, 62,
    419, 818, 113, 961, 119, 607, 553, 51, 767, 1006, 299, 626, 1023, 468, 365, 600,
    1010, 648, 433, 770, 577, 256, 570, 70, 42, 13, 860, 220, 346, 435, 904, 907,
    836, 619, 269, 358, 154, 368, 446, 212, 855, 542, 984, 645, 749, 990, 795, 179,
    434, 973, 878, 614, 593, 442, 448, 195, 566, 863, 19, 117, 725, 995, 631, 686,
    677, 103, 741, 467, 182, 227, 188, 612, 731, 112, 900, 146, 893, 531, 132, 601,
    951, 621, 147, 824, 758, 422, 611, 768, 715, 202, 126, 23, 353, 321, 971, 752,
    56, 61, 364, 541, 791, 938, 395, 949, 743, 345, 380, 679, 237, 815, 919, 231,
    424, 496, 755, 247, 274, 522, 630, 747, 576, 325, 735, 356, 16, 186, 1018, 133,
    540, 850, 847, 169, 911, 592, 511, 293, 481, 524, 1000, 181, 44, 403, 258, 688,
    396, 622, 92, 535, 400, 461, 927, 746, 517, 416, 1021, 350, 167, 28, 931, 963,
    253, 917, 109, 98, 948, 674, 444, 94, 669, 90, 905, 974, 929, 841, 311, 465,
    60, 297, 760, 565, 912, 316, 787, 702, 543, 925, 608, 975, 996, 940, 21, 491,
    139, 399, 673, 371, 369, 507, 49, 629, 548, 879, 547, 692, 152, 506, 116, 656,
    774, 853, 660, 530, 193, 700, 661, 599, 36, 926, 687, 736, 130, 967, 489 >>

(* LOG[a] of the source is LOG[a + 1] here; LOG[1] is the sentinel -1 *)
LOG == <<
    -1, 0, 231, 66, 462, 132, 297, 495, 693, 561, 363, 99, 528, 825, 726, 198,
    924, 264, 792, 858, 594, 990, 330, 891, 759, 660, 33, 627, 957, 165, 429, 396,
    128, 416, 28, 592, 1016, 141, 542, 60, 465, 249, 824, 223, 940, 738, 715, 736,
    793, 998, 558, 807, 374, 23, 413, 87, 896, 530, 4, 13, 976, 897, 799, 420,
    359, 789, 647, 15, 259, 1, 823, 206, 224, 644, 372, 318, 773, 605, 291, 254,
    696, 235, 480, 244, 32, 104, 454, 761, 148, 7, 969, 651, 946, 184, 967, 105,
    194, 19, 963, 482, 486, 658, 94, 865, 79, 126, 608, 70, 59, 962, 596, 207,
    873, 802, 781, 624, 1006, 859, 41, 804, 531, 440, 89, 315, 153, 289, 890, 479,
    590, 711, 1020, 475, 878, 927, 246, 466, 490, 685, 232, 992, 31, 263, 437, 335,
    455, 177, 875, 882, 603, 379, 549, 238, 1004, 175, 836, 336, 522, 154, 485, 415,
    260, 219, 355, 85, 545, 548, 6, 956, 381, 931, 160, 155, 552, 597, 506, 724,
    690, 273, 662, 847, 125, 939, 868, 5, 145, 49, 925, 192, 870, 136, 674, 107,
    425, 1012, 250, 855, 171, 81, 713, 10, 717, 272, 889, 12, 325, 214, 73, 67,
    310, 320, 357, 546, 839, 762, 301, 671, 290, 98, 170, 710, 827, 384, 438, 520,
    623, 412, 368, 869, 518, 2, 210, 911, 208, 64, 582, 508, 499, 908, 523, 187,
    271, 30, 14, 296, 718, 555, 279, 915, 470, 369, 744, 636, 488, 960, 448, 265,
    821, 83, 942, 90, 228, 686, 706, 408, 86, 780, 135, 469, 477, 834, 697, 610,
    721, 44, 916, 567, 463, 212, 200, 406, 262, 716, 494, 646, 668, 753, 566, 385,
    689, 554, 3, 478, 331, 935, 434, 514, 702, 977, 276, 810, 584, 536, 435, 68,
    362, 253, 589, 80, 565, 337, 96, 974, 274, 784, 621, 130, 981, 574, 648, 345,
    491, 893, 450, 55, 586, 921, 316, 504, 776, 76, 779, 236, 237, 356, 164, 147,
    612, 133, 139, 423, 391, 376, 386, 280, 783, 905, 828, 338, 737, 78, 955, 367,
    227, 892, 240, 122, 923, 103, 835, 519, 473, 92, 74, 515, 898, 814, 112, 322,
    837, 996, 564, 995, 159, 186, 127, 657, 629, 348, 52, 16, 906, 691, 512, 641,
    656, 588, 220, 777, 481, 541, 63, 551, 402, 532, 312, 902, 944, 47, 241, 993,
    948, 401, 503, 941, 97, 521, 243, 329, 556, 669, 445, 751, 304, 35, 298, 615,
    953, 538, 601, 800, 332, 215, 885, 267, 912, 698, 51, 344, 517, 218, 595, 222,
    25, 818, 848, 829, 360, 699, 742, 394, 778, 609, 853, 540, 966, 626, 838, 176,
    854, 245, 643, 527, 599, 502, 77, 261, 749, 510, 233, 123, 441, 949, 119, 786,
    439, 975, 295, 867, 813, 701, 739, 600, 730, 679, 116, 496, 754, 719, 418, 168,
    326, 936, 202, 285, 173, 151, 421, 740, 258, 1022, 72, 991, 611, 211, 115, 614,
    913, 790, 572, 728, 618, 756, 339, 663, 447, 191, 1005, 997, 71, 221, 226, 934,
    29, 124, 314, 798, 150, 952, 321, 275, 459, 431, 917, 637, 937, 694, 639, 443,
    317, 725, 1011, 877, 366, 493, 700, 947, 708, 797, 42, 616, 928, 899, 841, 984,
    392, 137, 287, 1002, 1000, 351, 268, 292, 40, 806, 487, 48, 239, 513, 257, 217,
    794, 680, 181, 638, 677, 979, 856, 277, 324, 684, 822, 65, 729, 34, 138, 405,
    920, 820, 785, 311, 234, 593, 709, 484, 562, 327, 143, 182, 665, 796, 745, 568,
    933, 852, 185, 361, 507, 505, 18, 1015, 815, 879, 767, 576, 666, 189, 299, 805,
    986, 732, 255, 886, 871, 377, 851, 365, 642, 550, 775, 833, 300, 881, 945, 659,
    427, 634, 811, 251, 731, 999, 918, 862, 628, 573, 571, 393, 58, 248, 209, 84,
    722, 370, 101, 654, 681, 843, 286, 364, 817, 617, 129, 511, 547, 622, 735, 607,
    1007, 36, 307, 569, 1010, 1014, 467, 113, 468, 163, 587, 598, 395, 968, 378, 309,
    95, 994, 965, 190, 27, 864, 380, 907, 682, 341, 387, 108, 216, 774, 863, 1018,
    943, 509, 705, 54, 1003, 383, 791, 760, 525, 432, 559, 497, 1013, 703, 983, 766,
    458, 795, 100, 203, 471, 45, 353, 204, 131, 358, 334, 888, 43, 390, 750, 417,
    704, 283, 323, 247, 305, 860, 746, 579, 106, 743, 22, 872, 343, 114, 553, 922,
    1019, 9, 692, 604, 242, 866, 667, 904, 606, 333, 951, 919, 398, 844, 675, 281,
    895, 288, 661, 914, 583, 91, 884, 284, 978, 426, 765, 764, 460, 410, 117, 808,
    887, 734, 819, 149, 451, 156, 1008, 632, 712, 474, 772, 560, 294, 328, 782, 752,
    633, 676, 763, 982, 543, 787, 110, 900, 152, 529, 278, 846, 472, 535, 201, 266,
    788, 461, 11, 436, 375, 720, 167, 444, 664, 430, 352, 653, 747, 534, 229, 909,
    635, 673, 801, 373, 613, 50, 102, 688, 883, 53, 57, 683, 179, 577, 195, 533,
    161, 56, 769, 37, 832, 256, 8, 26, 563, 973, 446, 625, 93, 591, 498, 930,
    120, 61, 929, 771, 282, 1009, 575, 840, 748, 46, 449, 407, 826, 174, 453, 857,
    755, 24, 640, 620, 411, 544, 69, 714, 196, 580, 500, 687, 397, 340, 850, 1001,
    146, 134, 501, 655, 650, 428, 319, 602, 768, 631, 403, 20, 17, 876, 342, 162,
    62, 526, 476, 75, 874, 670, 758, 183, 830, 970, 733, 831, 308, 21, 492, 932,
    980, 347, 741, 727, 464, 961, 354, 910, 672, 649, 157, 399, 350, 985, 1017, 950,
    293, 972, 757, 958, 707, 188, 306, 578, 82, 585, 901, 118, 989, 695, 414, 169,
    38, 388, 178, 630, 964, 903, 39, 880, 539, 225, 252, 158, 723, 581, 140, 193,
    557, 803, 144, 959, 433, 121, 516, 1021, 404, 570, 382, 894, 652, 849, 971, 987,
    489, 213, 230, 205, 303, 678, 199, 422, 842, 457, 442, 142, 346, 302, 845, 452,
    524, 409, 180, 861, 988, 269, 166, 619, 938, 270, 419, 88, 537, 172, 809, 111,
    313, 483, 816, 389, 109, 770, 349, 456, 197, 371, 926, 424, 645, 954, 400, 812 >>

(***************************************************************************)
(* Integer helpers: Python's ^ on non-negative integers below 1024, and    *)
(* powers of two for the shifts of convertbits.                            *)
(***************************************************************************)
(* a Python list: a sequence held by value *)
List(f) == f \o <<>>

RECURSIVE BitXor(_, _)
BitXor(a, b) ==
    IF a = 0 THEN b
    ELSE IF b = 0 THEN a
    ELSE (((a % 2) + (b % 2)) % 2) + 2 * BitXor(a \div 2, b \div 2)

XorTab == List([a \in 1..32 |-> List([b \in 1..32 |-> BitXor(a - 1, b - 1)])])

Xor(a, b) == 32 * XorTab[(a \div 32) + 1][(b \div 32) + 1] + XorTab[(a % 32) + 1][(b % 32) + 1]

RECURSIVE Pow2(_)
Pow2(n) == IF n = 0 THEN 1 ELSE 2 * Pow2(n - 1)

(* acc ^ f[lo] ^ ... ^ f[hi]; acc is computed before the next term is taken *)
RECURSIVE XorFrom(_, _, _, _)
XorFrom(f, lo, hi, acc) ==
    IF acc >= 0 /\ lo <= hi THEN XorFrom(f, lo + 1, hi, Xor(acc, f[lo])) ELSE acc

(* XOR of f[lo], ..., f[hi] *)
XorRange(f, lo, hi) == XorFrom(f, lo, hi, 0)

(***************************************************************************)
(* String helpers: str.lower, str.upper, str.rfind, CHARSET.find           *)
(***************************************************************************)
lower(str) == List([k \in 1..Len(str) |-> IF str[k] >= 65 /\ str[k] <= 90 THEN str[k] + 32 ELSE str[k]])

upper(str) == List([k \in 1..Len(str) |-> IF str[k] >= 97 /\ str[k] <= 122 THEN str[k] - 32 ELSE str[k]])

(* 0-based index of the last occurrence of ch, -1 when there is none *)
rfind(str, ch) ==
    LET hits == {k \in 1..Len(str) : str[k] = ch}
    IN  IF hits = {} THEN -1 ELSE (CHOOSE k \in hits : \A j \in hits : j <= k) - 1

(* 0-based index of ch in CHARSET, -1 when it is not an alphabet character *)
CharsetFind(ch) ==
    LET hits == {k \in 1..Len(CHARSET) : CHARSET[k] = ch}
    IN  IF hits = {} THEN -1 ELSE (CHOOSE k \in hits : TRUE) - 1

InCharset(ch) == \E k \in 1..Len(CHARSET) : CHARSET[k] = ch

Separator == 49

(***************************************************************************)
(* Checksum codec                                                          *)
(***************************************************************************)
ChecksumLen == 27

(* the XOR of the generator constants selected by the bits of top *)
GenMix == List([top \in 1..32 |->
              List([k \in 1..ChecksumLen |->
                  XorRange([bit \in 0..4 |-> IF ((top - 1) \div Pow2(bit)) % 2 = 1 THEN generator[bit + 1][k] ELSE 0], 0, 4)])])

XorSeq(a, b) == List([k \in 1..Len(a) |-> Xor(a[k], b[k])])

(* one iteration of the loop of bech32x_polymod: top = chk >> 130, the     *)
(* register loses its top digit and gains value as its lowest digit        *)
PolymodStep(chk, value) == XorSeq(Tail(chk) \o <<value>>, GenMix[Head(chk) + 1])

(* the loop of bech32x_polymod from the k-th value on.  The register is    *)
(* computed before the next iteration starts, as the assignment in the     *)
(* source does: taking its length forces that order of evaluation.         *)
RECURSIVE PolymodFrom(_, _, _)
PolymodFrom(chk, values, k) ==
    IF Len(chk) = ChecksumLen /\ k <= Len(values)
    THEN PolymodFrom(PolymodStep(chk, values[k]), values, k + 1)
    ELSE chk

One == List([k \in 1..ChecksumLen |-> IF k = ChecksumLen THEN 1 ELSE 0])

bech32x_polymod(values) == PolymodFrom(One, values, 1)

bech32x_hrp_expand(hrp) ==
    [k \in 1..Len(hrp) |-> hrp[k] \div 32] \o <<0>> \o [k \in 1..Len(hrp) |-> hrp[k] % 32]

bech32x_verify_checksum(hrp, data) == bech32x_polymod(bech32x_hrp_expand(hrp) \o data) = One

Zeros(n) == List([k \in 1..n |-> 0])

bech32x_create_checksum(hrp, data) ==
    LET values == bech32x_hrp_expand(hrp) \o data
        polymod == bech32x_polymod(values \o Zeros(ChecksumLen))
    IN  List([k \in 1..ChecksumLen |-> IF k = ChecksumLen THEN Xor(polymod[k], 1) ELSE polymod[k]])

bech32x_encode(hrp, data) ==
    LET combined == data \o bech32x_create_checksum(hrp, data)
    IN  hrp \o <<Separator>> \o [k \in 1..Len(combined) |-> CHARSET[combined[k] + 1]]

MaxStringLen == 1023

(* the structural checks shared by bech32x_decode and base32x_correct *)
BadChars(bech) ==
    \/ \E k \in 1..Len(bech) : bech[k] < 33 \/ bech[k] > 126
    \/ (lower(bech) # bech /\ upper(bech) # bech)

BadLayout(bech, pos) ==
    \/ pos < 1 \/ pos + ChecksumLen > Len(bech) \/ Len(bech) > MaxStringLen
    \/ ~ \A k \in (pos + 2)..Len(bech) : InCharset(bech[k])

(* data[:-27] *)
DropChecksum(data) == SubSeq(data, 1, Len(data) - ChecksumLen)

(* the value (None, None) of bech32x_decode, and a successful (hrp, data) *)
NonePair == [ok |-> FALSE, hrp |-> <<>>, data |-> <<>>]

bech32x_decode(bechIn) ==
    IF BadChars(bechIn) THEN NonePair
    ELSE LET lowered == lower(bechIn)
             seppos == rfind(lowered, Separator)
         IN  IF BadLayout(lowered, seppos) THEN NonePair
             ELSE LET prefix == SubSeq(lowered, 1, seppos)
                      symbols == List([k \in 1..(Len(lowered) - seppos - 1) |-> CharsetFind(lowered[seppos + 1 + k])])
                  IN  IF ~ bech32x_verify_checksum(prefix, symbols) THEN NonePair
                      ELSE [ok |-> TRUE, hrp |-> prefix, data |-> DropChecksum(symbols)]

(***************************************************************************)
(* convertbits and the byte-level encode / decode.  A Python value that is *)
(* a list, None or the pair (None, None) is a record [kind, val].          *)
(***************************************************************************)
PyNone == [kind |-> "None", val |-> <<>>]
PyNonePair == [kind |-> "NonePair", val |-> <<>>]
PyList(seq) == [kind |-> "list", val |-> seq]

(* the for loop of convertbits with its inner while loop; ok = FALSE is    *)
(* the early return None                                                   *)
RECURSIVE ConvertLoop(_, _, _, _, _, _, _)
ConvertLoop(data, k, acc, bits, ret, frombits, tobits) ==
    IF bits >= tobits
    THEN ConvertLoop(data, k, acc, bits - tobits,
                     Append(ret, (acc \div Pow2(bits - tobits)) % Pow2(tobits)), frombits, tobits)
    ELSE IF k > Len(data) THEN [ok |-> TRUE, acc |-> acc, bits |-> bits, ret |-> ret]
    ELSE IF data[k] < 0 \/ data[k] \div Pow2(frombits) # 0
         THEN [ok |-> FALSE, acc |-> acc, bits |-> bits, ret |-> ret]
    ELSE ConvertLoop(data, k + 1, (acc * Pow2(frombits) + data[k]) % Pow2(frombits + tobits - 1),
                     bits + frombits, ret, frombits, tobits)

convertbits(data, frombits, tobits, pad) ==
    LET st == ConvertLoop(data, 1, 0, 0, <<>>, frombits, tobits)
        rest == (st.acc * Pow2(tobits - st.bits)) % Pow2(tobits)
    IN  IF ~ st.ok THEN PyNone
        ELSE IF pad
             THEN IF st.bits # 0 THEN PyList(Append(st.ret, rest)) ELSE PyList(st.ret)
             ELSE IF st.bits >= frombits \/ rest # 0 THEN PyNone ELSE PyList(st.ret)

decode(hrp, addr) ==
    LET got == bech32x_decode(addr)
    IN  IF ~ got.ok \/ got.hrp # hrp THEN PyNonePair ELSE convertbits(got.data, 5, 8, FALSE)

(* encode of a byte list whose values are all below 256 (convertbits does  *)
(* not return None); the result is a string or None                        *)
encode(hrp, data) ==
    LET ret == bech32x_encode(hrp, convertbits(data, 8, 5, TRUE).val)
    IN  IF decode(hrp, ret) = PyNonePair THEN PyNone ELSE PyList(ret)

(***************************************************************************)
(* GF(1024) arithmetic of the error-correction part                        *)
(***************************************************************************)
FieldOrder == 1023

shift(a, e) == IF a = 0 THEN 0 ELSE EXP[((LOG[a + 1] + e) % FieldOrder) + 1]

(* ret[x + y] ^= shift(b[y], LOG[a[x]]) for every x with a[x] != 0 *)
polymul(a, b) ==
    List([idx \in 1..(Len(a) + Len(b) - 1) |->
        XorRange([xa \in 1..Len(a) |->
                     IF a[xa] # 0 /\ idx - xa + 1 >= 1 /\ idx - xa + 1 <= Len(b)
                     THEN shift(b[idx - xa + 1], LOG[a[xa] + 1])
                     ELSE 0], 1, Len(a))])

(* the loop of polyeval over reversed(p) from p[k] down to p[1]:           *)
(* ret = shift(ret, l) ^ v                                                 *)
RECURSIVE Horner(_, _, _, _)
Horner(p, l, k, ret) ==
    IF ret >= 0 /\ k >= 1 THEN Horner(p, l, k - 1, Xor(shift(ret, l), p[k])) ELSE ret

polyeval(p, l) == Horner(p, l, Len(p), 0)

(***************************************************************************)
(* bech32x_solver                                                          *)
(***************************************************************************)
(* m = [[s[i + j] for i in range(err + 1)] for j in range(err)] *)
SyndromeMatrix(s, err) == List([row \in 1..err |-> List([col \in 1..(err + 1) |-> s[col + row - 1]])])

(* nz: the first row r >= rc with a nonzero entry in column rc, 0 for None *)
PivotRow(m, rc, err) ==
    LET cand == {r \in rc..err : m[r][rc] # 0}
    IN  IF cand = {} THEN 0 ELSE CHOOSE r \in cand : \A q \in cand : r <= q

(* one iteration of the loop over rc: swap, normalise the pivot row, and   *)
(* eliminate column rc from every other row                                *)
EliminateColumn(m, rc, nz, err) ==
    LET swapped == List([r \in 1..err |-> IF r = nz THEN m[rc] ELSE IF r = rc THEN m[nz] ELSE m[r]])
        l == LOG[swapped[rc][rc] + 1]
        pivot == List([c \in 1..(err + 1) |-> shift(swapped[rc][c], -l)])
    IN  List([r \in 1..err |->
            IF r = rc THEN pivot
            ELSE IF swapped[r][rc] # 0
                 THEN List([c \in 1..(err + 1) |->
                               Xor(swapped[r][c], shift(pivot[c], LOG[swapped[r][rc] + 1]))])
                 ELSE swapped[r]])

(* the loop over rc from column rc on; singular is the return None *)
RECURSIVE GaussFrom(_, _, _)
GaussFrom(m, rc, err) ==
    IF Len(m) = err /\ rc <= err
    THEN LET nz == PivotRow(m, rc, err)
         IN  IF nz = 0 THEN [singular |-> TRUE, m |-> m]
             ELSE GaussFrom(EliminateColumn(m, rc, nz, err), rc + 1, err)
    ELSE [singular |-> FALSE, m |-> m]

(* the locator with its coefficients taken from the first row down *)
LocatorUnreversed(m, err) == List([q \in 1..(err + 1) |-> IF q = 1 THEN 1 ELSE m[q - 1][err + 1]])

(* lam = [1] + [m[-(i+1)][err] for i in range(err)] *)
Locator(m, err) == List([q \in 1..(err + 1) |-> IF q = 1 THEN 1 ELSE m[err - q + 2][err + 1]])

(* lamd = [0 if i & 1 else m[-(1+i)][err] for i in range(err)] *)
LocatorDerivative(m, err) ==
    List([q \in 1..err |-> IF (q - 1) % 2 = 1 THEN 0 ELSE m[err - q + 1][err + 1]])

OmegaLen == 13

ForneyFactor == 19

(* the positions p in range(siz), ascending, at which lam has a root *)
RootPositions(lam, siz) ==
    LET IsRoot(p) == polyeval(lam, -p) = 0
    IN  SelectSeq([q \in 1..siz |-> q - 1], IsRoot)

(* the magnitude without the division by the locator's derivative *)
MagnitudeUndivided(om, lamd, p) == shift(polyeval(om, -p), -(ForneyFactor * p))

(* e = shift(polyeval(om, -p), -(19 * p + LOG[polyeval(lamd, -p)])) *)
Magnitude(om, lamd, p) ==
    shift(polyeval(om, -p), -(ForneyFactor * p + LOG[polyeval(lamd, -p) + 1]))

(* bech32x_solver(s, siz, err): singular is the return None, ret the list  *)
(* of (p, e) pairs                                                         *)
bech32x_solver(s, siz, err) ==
    LET solved == GaussFrom(SyndromeMatrix(s, err), 1, err)
        lam == Locator(solved.m, err)
        lamd == LocatorDerivative(solved.m, err)
        om == SubSeq(polymul(s, lam), 1, OmegaLen)
        roots == RootPositions(lam, siz)
    IN  IF solved.singular THEN [singular |-> TRUE, ret |-> <<>>]
        ELSE [singular |-> FALSE,
              ret |-> List([q \in 1..Len(roots) |-> <<roots[q], Magnitude(om, lamd, roots[q])>>])]

(* whether bech32x_solver reads LOG[0] in the Forney step: the derivative  *)
(* of the locator vanishes at a root found among the positions             *)
SolverReadsLogZero(s, siz, err) ==
    LET solved == GaussFrom(SyndromeMatrix(s, err), 1, err)
        lam == Locator(solved.m, err)
        lamd == LocatorDerivative(solved.m, err)
        roots == RootPositions(lam, siz)
    IN  /\ ~ solved.singular
        /\ \E q \in 1..Len(roots) : polyeval(lamd, -roots[q]) = 0

(***************************************************************************)
(* base32x_correct, one loop iteration at a time                           *)
(***************************************************************************)
Wildcard == <<42>>

SyndromeLen == 14

SyndromeBase == 20

MaxErrors == 7

(* the 27 digits of bech32x_polymod(values) ^ 1, most significant first *)
Residue(values) == XorSeq(bech32x_polymod(values), One)

(* syn[i] over the residue digits from the k-th on:                        *)
(* syn[i] = shift(syn[i], 20 + i) ^ v                                      *)
RECURSIVE SyndromeFold(_, _, _, _)
SyndromeFold(res, e, k, acc) ==
    IF acc >= 0 /\ k <= Len(res) THEN SyndromeFold(res, e, k + 1, Xor(shift(acc, e), res[k])) ELSE acc

Syndrome(values) ==
    LET res == Residue(values)
    IN  List([q \in 1..SyndromeLen |-> SyndromeFold(res, SyndromeBase + q - 1, 1, 0)])

(* values after "values[-(1+p)] ^= e" for every (p, e) of ret *)
ApplyCorrections(values, ret) ==
    List([k \in 1..Len(values) |->
        XorRange([q \in 1..Len(ret) |-> IF Len(values) - ret[q][1] = k THEN ret[q][2] ELSE 0]
                 \o <<values[k]>>, 1, Len(ret) + 1)])

(* the four-part return values of base32x_correct *)
CorrectFailure == [status |-> "fail", hrp |-> <<>>, data |-> <<>>, bech |-> <<>>, errs |-> <<>>]

CorrectRaises == [status |-> "IndexError", hrp |-> <<>>, data |-> <<>>, bech |-> <<>>, errs |-> <<>>]

CorrectFallsThrough == [status |-> "None", hrp |-> <<>>, data |-> <<>>, bech |-> <<>>, errs |-> <<>>]

(* the return statement of the success branch: CHARSET[x] raises           *)
(* IndexError when a corrected symbol is above 31                          *)
CorrectSuccess(hrpgotv, nhrp, fixed, siz, ret) ==
    LET codeword == SubSeq(fixed, nhrp + 1, Len(fixed))
    IN  IF \E k \in 1..Len(codeword) : codeword[k] > 31 THEN CorrectRaises
        ELSE [status |-> "ok",
              hrp    |-> hrpgotv,
              data   |-> SubSeq(fixed, nhrp + 1, Len(fixed) - ChecksumLen),
              bech   |-> List([k \in 1..Len(codeword) |-> CHARSET[codeword[k] + 1]]),
              errs   |-> List([q \in 1..Len(ret) |-> siz - 1 - ret[q][1]])]

(***************************************************************************)
(* The inputs a caller hands to the library                                *)
(***************************************************************************)
MaxHrpLen == 1

MaxDataLen == 1

MaxBytesLen == 1

(* "A", "a" *)
HrpChars == {65, 97}

DataSymbols == {0, 31}

ByteValues == {0, 255}

SeqsUpTo(S, n) == UNION {[1..k -> S] : k \in 0..n}

(* strings handed to the decoders that no encoder call produced *)
(* "o1qajt00ak7krvyflyj0ujqgdhrh": 26 symbols after the separator *)
Rx26 ==
    << 111, 49, 113, 97, 106, 116, 48, 48, 97, 107, 55, 107, 114, 118, 121, 102, 108, 121, 106, 48, 117, 106, 113, 103, 100, 104, 114, 104 >>

(* "a1esclquse7wqtan8s9wqsztm9mqc" *)
RxSingular ==
    << 97, 49, 101, 115, 99, 108, 113, 117, 115, 101, 55, 119, 113, 116, 97, 110, 56, 115, 57, 119, 113, 115, 122, 116, 109, 57, 109, 113, 99 >>

(* "a19wpzjxw4xgk8chhxte73dqha93c" *)
RxBigMagnitude ==
    << 97, 49, 57, 119, 112, 122, 106, 120, 119, 52, 120, 103, 107, 56, 99, 104, 104, 120, 116, 101, 55, 51, 100, 113, 104, 97, 57, 51, 99 >>

(* "a1xx4n5ydah9tumtfqdlh45rrc7eg" *)
RxFalseRepair ==
    << 97, 49, 120, 120, 52, 110, 53, 121, 100, 97, 104, 57, 116, 117, 109, 116, 102, 113, 100, 108, 104, 52, 53, 114, 114, 99, 55, 101, 103 >>

(* "a1qx7vcvmcl2nmxc9r7d4rayntkqc" *)
RxDoubleRoot ==
    << 97, 49, 113, 120, 55, 118, 99, 118, 109, 99, 108, 50, 110, 109, 120, 99, 57, 114, 55, 100, 52, 114, 97, 121, 110, 116, 107, 113, 99 >>

(* "a1" followed by 1022 times "q": one character too long *)
RxTooLong == <<97, 49>> \o [k \in 1..(MaxStringLen - 1) |-> 113]

Received == {Rx26, RxSingular, RxBigMagnitude, RxFalseRepair, RxDoubleRoot, RxTooLong}

(* the codeword positions (0-based, after the separator) a transmission    *)
(* may alter, and the symbol difference it puts there                      *)
ErrPositions == {0, 3, 7, 12, 16, 21, 26}

ErrMask(p) == ((7 * p + 3) % 31) + 1

(***************************************************************************)
(* State                                                                   *)
(***************************************************************************)
VARIABLES
    pc,       \* "start", "ready", "loop" (inside base32x_correct) or "done"
    op,       \* the operation that ran last or is running
    inHrp,    \* the caller's HRP
    inData,   \* the caller's data symbols (bech32x_encode)
    inBytes,  \* the caller's bytes (encode)
    via,      \* the encoder that was called: "bech32x_encode", "encode" or "none"
    sent,     \* the string the encoder returned, <<>> when none did
    altered,  \* the codeword positions at which rx differs from sent
    rx,       \* the string handed to a decoder
    want,     \* base32x_correct: expected_hrp
    hrpgot,   \* base32x_correct: hrpgot
    rxValues, \* base32x_correct: values
    syn,      \* base32x_correct: syn
    nerr,     \* base32x_correct: the loop variable i
    result,   \* what the operation returned
    log0      \* whether LOG[0] has been read

vars == <<pc, op, inHrp, inData, inBytes, via, sent, altered, rx, want, hrpgot, rxValues, syn, nerr, result, log0>>

NoResult == [status |-> "pending", hrp |-> <<>>, data |-> <<>>, bech |-> <<>>, errs |-> <<>>]

Init ==
    /\ op = "none"
    /\ via = "none"
    /\ want = <<>>
    /\ sent = <<>>
    /\ altered = {}
    /\ hrpgot = <<>>
    /\ rxValues = <<>>
    /\ syn = <<>>
    /\ nerr = MaxErrors
    /\ result = NoResult
    /\ log0 = FALSE
    /\ \/ /\ pc = "start"
          /\ inHrp \in SeqsUpTo(HrpChars, MaxHrpLen)
          /\ \/ inData \in SeqsUpTo(DataSymbols, MaxDataLen) /\ inBytes = <<>>
             \/ inBytes \in SeqsUpTo(ByteValues, MaxBytesLen) /\ inData = <<>>
          /\ rx = <<>>
       \/ /\ pc = "ready"
          /\ inHrp = <<>>
          /\ inData = <<>>
          /\ inBytes = <<>>
          /\ rx \in Received

(***************************************************************************)
(* Operations                                                              *)
(***************************************************************************)
(* bech32x_encode(hrp, data) *)
EncodeSymbols ==
    /\ pc = "start"
    /\ pc' = "ready"
    /\ inBytes = <<>>
    /\ op' = "bech32x_encode"
    /\ via' = "bech32x_encode"
    /\ rx' = bech32x_encode(inHrp, inData)
    /\ sent' = rx'
    /\ UNCHANGED <<inHrp, inData, inBytes, altered, want, hrpgot, rxValues, syn, nerr, result, log0>>

(* encode(hrp, bytes), which returns a string or None *)
EncodeBytes ==
    /\ pc = "start"
    /\ inData = <<>>
    /\ op' = "encode"
    /\ via' = "encode"
    /\ LET ret == encode(inHrp, inBytes)
       IN  IF ret.kind = "None"
           THEN /\ pc' = "done"
                /\ result' = [NoResult EXCEPT !.status = "None"]
                /\ UNCHANGED <<rx, sent>>
           ELSE /\ pc' = "ready"
                /\ rx' = ret.val
                /\ sent' = ret.val
                /\ UNCHANGED result
    /\ UNCHANGED <<inHrp, inData, inBytes, altered, want, hrpgot, rxValues, syn, nerr, log0>>

(* a transmission error: the character at codeword position p becomes      *)
(* another alphabet character                                              *)
Corrupt(p) ==
    /\ pc = "ready"
    /\ via = "bech32x_encode"
    /\ rx = lower(rx)
    /\ \A q \in altered : q < p
    /\ LET pos == rfind(rx, Separator)
           at == pos + 2 + p
       IN  /\ at <= Len(rx)
           /\ rx' = [rx EXCEPT ![at] = CHARSET[Xor(CharsetFind(rx[at]), ErrMask(p)) + 1]]
    /\ altered' = altered \cup {p}
    /\ UNCHANGED <<pc, op, inHrp, inData, inBytes, via, sent, want, hrpgot, rxValues, syn, nerr, result, log0>>

(* the string is typed in upper case *)
UpperCase ==
    /\ pc = "ready"
    /\ via # "none"
    /\ upper(rx) # rx
    /\ rx' = upper(rx)
    /\ UNCHANGED <<pc, op, inHrp, inData, inBytes, via, sent, altered, want, hrpgot, rxValues, syn, nerr, result, log0>>

(* bech32x_decode(bech) *)
StrictDecode ==
    /\ pc = "ready"
    /\ pc' = "done"
    /\ op' = "bech32x_decode"
    /\ LET got == bech32x_decode(rx)
       IN  result' = [status |-> IF got.ok THEN "ok" ELSE "fail",
                      hrp |-> got.hrp, data |-> got.data, bech |-> <<>>, errs |-> <<>>]
    /\ UNCHANGED <<inHrp, inData, inBytes, via, sent, altered, rx, want, hrpgot, rxValues, syn, nerr, log0>>

(* decode(hrp, bech), which returns a byte list, None or (None, None) *)
DecodeBytes ==
    /\ pc = "ready"
    /\ via = "encode"
    /\ pc' = "done"
    /\ op' = "decode"
    /\ LET got == decode(inHrp, rx)
       IN  result' = [status |-> IF got.kind = "list" THEN "ok" ELSE got.kind,
                      hrp |-> <<>>, data |-> got.val, bech |-> <<>>, errs |-> <<>>]
    /\ UNCHANGED <<inHrp, inData, inBytes, via, sent, altered, rx, want, hrpgot, rxValues, syn, nerr, log0>>

(* base32x_correct(expected, bech) up to the loop over the error counts:   *)
(* the structural checks and the syndrome                                  *)
CorrectBegin(expected) ==
    /\ pc = "ready"
    /\ op' = "base32x_correct"
    /\ want' = expected
    /\ LET lowered == lower(rx)
           seppos == rfind(lowered, Separator)
           prefix == SubSeq(lowered, 1, seppos)
           symbols == List([k \in 1..(Len(lowered) - seppos - 1) |-> CharsetFind(lowered[seppos + 1 + k])])
           received == bech32x_hrp_expand(prefix) \o symbols
       IN  IF \/ BadChars(rx)
              \/ BadLayout(lowered, seppos)
              \/ (expected # Wildcard /\ prefix # expected)
           THEN /\ pc' = "done"
                /\ result' = CorrectFailure
                /\ UNCHANGED <<hrpgot, rxValues, syn>>
           ELSE /\ pc' = "loop"
                /\ hrpgot' = prefix
                /\ rxValues' = received
                /\ syn' = Syndrome(received)
                /\ UNCHANGED result
    /\ nerr' = MaxErrors
    /\ UNCHANGED <<inHrp, inData, inBytes, via, sent, altered, rx, log0>>

(* one iteration of "for i in range(7, -1, -1)" *)
CorrectTry ==
    /\ pc = "loop"
    /\ LET nhrp == 2 * Len(hrpgot) + 1
           siz == Len(rxValues) - nhrp
           solved == bech32x_solver(syn, siz, nerr)
       IN  /\ log0' = (log0 \/ SolverReadsLogZero(syn, siz, nerr))
           /\ IF solved.singular
              THEN IF nerr > 0
                   THEN /\ nerr' = nerr - 1
                        /\ UNCHANGED <<pc, result>>
                   ELSE /\ pc' = "done"
                        /\ result' = CorrectFallsThrough
                        /\ UNCHANGED nerr
              ELSE /\ pc' = "done"
                   /\ UNCHANGED nerr
                   /\ result' = IF Len(solved.ret) = nerr
                                THEN CorrectSuccess(hrpgot, nhrp, ApplyCorrections(rxValues, solved.ret),
                                                    siz, solved.ret)
                                ELSE CorrectFailure
    /\ UNCHANGED <<op, inHrp, inData, inBytes, via, sent, altered, rx, want, hrpgot, rxValues, syn>>

Next ==
    \/ EncodeSymbols
    \/ EncodeBytes
    \/ \E p \in ErrPositions : Corrupt(p)
    \/ UpperCase
    \/ StrictDecode
    \/ DecodeBytes
    \/ \E expected \in {Wildcard, inHrp} : CorrectBegin(expected)
    \/ CorrectTry

Spec == Init /\ [][Next]_vars

(***************************************************************************)
(* Notions the properties are stated with                                  *)
(***************************************************************************)
(* bech[:pos] and bech[pos+1:] for pos = bech.rfind('1') *)
HrpOf(str) == SubSeq(str, 1, rfind(str, Separator))

CodewordOf(str) == SubSeq(str, rfind(str, Separator) + 2, Len(str))

(* [CHARSET.find(c) for c in str] *)
SymbolsOf(str) == List([k \in 1..Len(str) |-> CharsetFind(str[k])])

(* a non-empty HRP of printable characters in one case *)
UniformCaseHrp(h) ==
    /\ Len(h) >= 1
    /\ \A k \in 1..Len(h) : h[k] >= 33 /\ h[k] <= 126
    /\ (lower(h) = h \/ upper(h) = h)

(* base32x_correct was called with the HRP of the string or with "*" *)
RightHrpWanted == want = Wildcard \/ want = HrpOf(lower(rx))

CorrectReturned == pc = "done" /\ op = "base32x_correct"

(* C1: for a non-empty printable HRP in one case, strict decode of what    *)
(* the encoder returned gives back the data, byte-level decode gives back  *)
(* the bytes, and encode does not return None.                             *)
C1_RoundTrip ==
    (pc = "done" /\ rx = sent /\ UniformCaseHrp(inHrp)) =>
        /\ (op = "bech32x_decode" /\ via = "bech32x_encode") =>
               (result.status = "ok" /\ result.data = inData)
        /\ (op = "decode") => (result.status = "ok" /\ result.data = inBytes)
        /\ (op = "encode") => (result.status # "None")

(* C2: after exactly one character of the codeword of a valid encoded      *)
(* string was replaced, base32x_correct returns the original data and one  *)
(* corrected position, the index in the returned string of the character   *)
(* that was replaced.                                                      *)
C2_SingleErrorCorrected ==
    (CorrectReturned /\ Cardinality(altered) = 1 /\ bech32x_decode(sent).ok /\ RightHrpWanted) =>
        /\ result.status = "ok"
        /\ result.data = inData
        /\ Len(result.errs) = 1
        /\ altered = {result.errs[1]}
        /\ Len(result.bech) = Len(CodewordOf(rx))
        /\ \A k \in 1..Len(result.bech) :
               (result.bech[k] # CodewordOf(lower(rx))[k]) <=> (k = result.errs[1] + 1)

C2_Witness ==
    /\ CorrectReturned
    /\ altered = {12}
    /\ want = Wildcard
    /\ inData = <<31>>
    /\ result.status = "ok"
    /\ result.data = <<31>>
    /\ result.errs = <<12>>

(* C3: after k characters of the codeword of a valid encoded string were   *)
(* replaced, 2 <= k <= 7, base32x_correct succeeds, the returned codeword  *)
(* is the original codeword and the corrected positions are exactly the k  *)
(* replaced ones.                                                          *)
C3_MultiErrorCorrected ==
    (/\ CorrectReturned
     /\ Cardinality(altered) >= 2
     /\ Cardinality(altered) <= MaxErrors
     /\ bech32x_decode(sent).ok
     /\ RightHrpWanted) =>
        /\ result.status = "ok"
        /\ result.data = inData
        /\ result.bech = CodewordOf(sent)
        /\ Len(result.errs) = Cardinality(altered)
        /\ {result.errs[q] : q \in 1..Len(result.errs)} = altered

C3_Witness ==
    /\ CorrectReturned
    /\ Cardinality(altered) = MaxErrors
    /\ rx # sent
    /\ result.status = "ok"
    /\ result.bech = CodewordOf(sent)
    /\ Len(result.errs) = MaxErrors

(* C4: on a string that strict decode accepts, base32x_correct returns no  *)
(* corrected position and the lower-cased input string itself: HRP, "1",   *)
(* data characters and checksum characters.                                *)
C4_Idempotent ==
    (/\ CorrectReturned
     /\ Len(CodewordOf(rx)) >= ChecksumLen
     /\ bech32x_decode(rx).ok
     /\ RightHrpWanted) =>
        /\ result.status = "ok"
        /\ result.errs = <<>>
        /\ result.bech = lower(rx)

(* C5: a string with fewer than 27 symbols after its last separator is     *)
(* rejected by bech32x_decode and by base32x_correct, before any syndrome  *)
(* is computed.                                                            *)
C5_ShortChecksumRejected ==
    (/\ op \in {"bech32x_decode", "base32x_correct"}
     /\ rfind(rx, Separator) >= 0
     /\ Len(CodewordOf(rx)) < ChecksumLen) =>
        (pc = "done" /\ result.status = "fail")

(* C6: when base32x_correct returns a result with corrected positions, the *)
(* returned codeword passes bech32x_verify_checksum under the returned HRP.*)
C6_NoFalseCorrection ==
    (CorrectReturned /\ result.status = "ok" /\ result.errs # <<>>) =>
        bech32x_verify_checksum(result.hrp, SymbolsOf(result.bech))

(* C7: on a well-formed input base32x_correct returns success without      *)
(* corrected positions exactly when the syndrome is all zero, which is     *)
(* exactly when the polymod of the received values is 1.                   *)
C7_ValidIffZeroSyndrome ==
    (CorrectReturned /\ rxValues # <<>>) =>
        /\ (result.status = "ok" /\ result.errs = <<>>) <=> (syn = Zeros(SyndromeLen))
        /\ (syn = Zeros(SyndromeLen)) <=> (bech32x_polymod(rxValues) = One)

(* C8: base32x_correct always ends by returning the failure value or a     *)
(* success result, never by raising.                                       *)
C8_FailuresAreValues == CorrectReturned => result.status \in {"ok", "fail"}

(* C9: the error counts are tried in descending order; a singular system   *)
(* at t moves on to t - 1; the first solvable t ends the call, with        *)
(* success when the number of roots found is t and with the failure value  *)
(* otherwise.                                                              *)
C9_DescendingSearch ==
    [][pc = "loop" =>
          LET siz == Len(rxValues) - (2 * Len(hrpgot) + 1)
              solved == bech32x_solver(syn, siz, nerr)
          IN  IF solved.singular
              THEN nerr > 0 => (pc' = "loop" /\ nerr' = nerr - 1)
              ELSE /\ pc' = "done"
                   /\ nerr' = nerr
                   /\ result'.status = IF Len(solved.ret) = nerr THEN "ok" ELSE "fail"]_vars

(* C10: LOG[0] is never read, on any input that reaches the solver.        *)
C10_LogZeroNeverRead == ~ log0

====
